---- MODULE Spec2Model ----
(***************************************************************************)
(* Model of the repository scan of black-hole-orchestrator: the handler of *)
(* POST /api/github/scan in server/routes.ts.  A file tree is classified   *)
(* by an ordered table of regular expressions, loose plan files are        *)
(* attributed to known agents, the files are grouped into agent roles, and *)
(* file contents and last-commit dates are fetched concurrently before the *)
(* role list is sent.                                                      *)
(*                                                                         *)
(* Strings of the program are sequences of one-character strings, so that  *)
(* toUpperCase, the regular expressions, split, trim and includes are      *)
(* computed character by character.  A path that is stored in the state is *)
(* interned: the number k stands for the string PathText(k); the texts of  *)
(* the universe are pairwise distinct, so two numbers are equal exactly    *)
(* when the strings are.                                                   *)
(***************************************************************************)
EXTENDS Integers, Sequences, FiniteSets, TLC

\* ------------------------------------------------------------------ bounds

\* The longest tree listing the provider returns.
MaxTree == 3

\* The longest tree listing of a scan that is repeated.
MaxRescanTree == 2

\* The most tree entries two concurrent calls of the handler list together.
MaxPairFiles == 2

\* ------------------------------------------------------- characters, strings

LowerLetters == <<"a","b","c","d","e","f","g","h","i","j","k","l","m",
                  "n","o","p","q","r","s","t","u","v","w","x","y","z">>
UpperLetters == <<"A","B","C","D","E","F","G","H","I","J","K","L","M",
                  "N","O","P","Q","R","S","T","U","V","W","X","Y","Z">>

\* String.prototype.toUpperCase on one character (ASCII).
UpperChar(c) ==
  IF \E i \in 1..Len(LowerLetters) : LowerLetters[i] = c
  THEN UpperLetters[CHOOSE i \in 1..Len(LowerLetters) : LowerLetters[i] = c]
  ELSE c

\* The name is taken as written (no nameTransform).
ToUpperCaseOmitted(s) == s

\* String.prototype.toUpperCase.
ToUpperCase(s) == [i \in 1..Len(s) |-> UpperChar(s[i])]

\* Two characters are the same under the regular expressions' i flag.
EqI(a, b) == a = b \/ UpperChar(a) = UpperChar(b)

\* s from its i-th character on (String.prototype.slice(i - 1)).
Drop(s, n) == SubSeq(s, n + 1, Len(s))

StartsWith(s, pre) ==
  /\ Len(s) >= Len(pre)
  /\ \A i \in 1..Len(pre) : s[i] = pre[i]

StartsWithI(s, pre) ==
  /\ Len(s) >= Len(pre)
  /\ \A i \in 1..Len(pre) : EqI(s[i], pre[i])

EndsWithI(s, suf) ==
  /\ Len(s) >= Len(suf)
  /\ \A i \in 1..Len(suf) : EqI(s[Len(s) - Len(suf) + i], suf[i])

EqualsI(s, t) == Len(s) = Len(t) /\ StartsWithI(s, t)

NoSlash(s) == \A i \in 1..Len(s) : s[i] # "/"

\* String.prototype.includes.
Includes(s, sub) ==
  \E i \in 0..(Len(s) - Len(sub)) : StartsWith(Drop(s, i), sub)

\* p.split("/").pop() || "": the text after the last slash.
FileName(p) ==
  LET slashes == {i \in 1..Len(p) : p[i] = "/"}
  IN  IF slashes = {} THEN p
      ELSE Drop(p, CHOOSE i \in slashes : \A j \in slashes : j <= i)

\* ---------------------------------------------------------- string literals

DocsPromptsPrefix == <<"d","o","c","s","/","p","r","o","m","p","t","s","/">>
PlanningPrefix == DocsPromptsPrefix \o <<"p","l","a","n","n","i","n","g","-">>
ExecutionPrefix == DocsPromptsPrefix \o <<"e","x","e","c","u","t","i","o","n","-">>
StatusPrefix == <<"d","o","c","s","/","s","t","a","t","u","s","/">>
ProgressPrefix == <<"d","o","c","s","/","P","R","O","G","R","E","S","S","-">>
SysPlansPrefix == <<".","s","y","s","/","p","l","a","n","s","/">>
GithubAgentsPrefix == <<".","g","i","t","h","u","b","/","a","g","e","n","t","s","/">>
AgentsMd == <<"A","G","E","N","T","S",".","m","d">>
ClaudeMd == <<"C","L","A","U","D","E",".","m","d">>
DotMd == <<".","m","d">>
LookPlanning == <<"p","l","a","n","n","i","n","g","-">>
LookExecution == <<"e","x","e","c","u","t","i","o","n","-">>
LookReadme == <<"R","E","A","D","M","E">>
SharedKey == <<"_","S","H","A","R","E","D">>
SharedDisplay == <<"S","H","A","R","E","D">>

\* --------------------------------------------------------- the pattern table

\* The result of String.prototype.match: null, or the first capture group.
NoMatch == [ok |-> FALSE, g1 |-> <<>>]
Matched(g) == [ok |-> TRUE, g1 |-> g]

\* /^<pre>([^/]+)<suf>$/i
MatchToken(p, pre, suf) ==
  LET g == SubSeq(p, Len(pre) + 1, Len(p) - Len(suf))
  IN  IF /\ Len(p) >= Len(pre) + Len(suf) + 1
         /\ StartsWithI(p, pre)
         /\ EndsWithI(p, suf)
         /\ NoSlash(g)
      THEN Matched(g) ELSE NoMatch

\* The daily-prompt entry without its lookahead.
MatchDailyPromptOpen(p) == MatchToken(p, DocsPromptsPrefix, DotMd)

\* /^docs\/prompts\/(?!planning-|execution-|README)([^/]+)\.md$/i
MatchDailyPrompt(p) ==
  LET rest == Drop(p, Len(DocsPromptsPrefix))
  IN  IF /\ StartsWithI(p, DocsPromptsPrefix)
         /\ ~StartsWithI(rest, LookPlanning)
         /\ ~StartsWithI(rest, LookExecution)
         /\ ~StartsWithI(rest, LookReadme)
      THEN MatchToken(p, DocsPromptsPrefix, DotMd) ELSE NoMatch

\* /^\.sys\/plans\/([^/]+)\/.+$/i
MatchPlanDir(p) ==
  LET rest == Drop(p, Len(SysPlansPrefix))
      slashes == {i \in 1..Len(rest) : rest[i] = "/"}
      first == CHOOSE i \in slashes : \A j \in slashes : i <= j
  IN  IF /\ StartsWithI(p, SysPlansPrefix)
         /\ slashes # {}
         /\ first >= 2
         /\ first < Len(rest)
      THEN Matched(SubSeq(rest, 1, first - 1)) ELSE NoMatch

\* /^AGENTS\.md$/i and /^CLAUDE\.md$/i
MatchExact(p, lit) == IF EqualsI(p, lit) THEN Matched(<<>>) ELSE NoMatch

\* /^\.github\/agents\/.+$/i
MatchGithubAgents(p) ==
  IF StartsWithI(p, GithubAgentsPrefix) /\ Len(p) > Len(GithubAgentsPrefix)
  THEN Matched(<<>>) ELSE NoMatch

\* The absent fixedAgent of a table entry.
NoAgent == <<"?">>

\* The table, in its order.  nameIndex is 1 (the capture group) or -1.
patterns == <<
  [regex |-> "planning",      fileType |-> "planning-prompt",  nameIndex |-> 1,  fixedAgent |-> NoAgent],
  [regex |-> "execution",     fileType |-> "execution-prompt", nameIndex |-> 1,  fixedAgent |-> NoAgent],
  [regex |-> "daily",         fileType |-> "prompt",           nameIndex |-> 1,  fixedAgent |-> NoAgent],
  [regex |-> "status",        fileType |-> "status",           nameIndex |-> 1,  fixedAgent |-> NoAgent],
  [regex |-> "progress",      fileType |-> "progress",         nameIndex |-> 1,  fixedAgent |-> NoAgent],
  [regex |-> "plandir",       fileType |-> "plan",             nameIndex |-> 1,  fixedAgent |-> NoAgent],
  [regex |-> "agentsmd",      fileType |-> "governance",       nameIndex |-> -1, fixedAgent |-> SharedKey],
  [regex |-> "claudemd",      fileType |-> "governance",       nameIndex |-> -1, fixedAgent |-> SharedKey],
  [regex |-> "githubagents",  fileType |-> "other",            nameIndex |-> -1, fixedAgent |-> SharedKey] >>

\* p.match(pat.regex)
Match(regex, p) ==
  CASE regex = "planning"     -> MatchToken(p, PlanningPrefix, DotMd)
    [] regex = "execution"    -> MatchToken(p, ExecutionPrefix, DotMd)
    [] regex = "daily"        -> MatchDailyPrompt(p)
    [] regex = "status"       -> MatchToken(p, StatusPrefix, DotMd)
    [] regex = "progress"     -> MatchToken(p, ProgressPrefix, DotMd)
    [] regex = "plandir"      -> MatchPlanDir(p)
    [] regex = "agentsmd"     -> MatchExact(p, AgentsMd)
    [] regex = "claudemd"     -> MatchExact(p, ClaudeMd)
    [] regex = "githubagents" -> MatchGithubAgents(p)

\* /^\.sys\/plans\/[^/]+\.md$/i.test(p)
LoosePlanTest(p) == MatchToken(p, SysPlansPrefix, DotMd).ok

\* ------------------------------------------------- the repository under scan

\* The entries a tree listing is drawn from: one path for every entry of the
\* pattern table (in mixed letter case), loose plan files, paths no pattern
\* matches, and a directory.
Universe == <<
  [path |-> <<"d","o","c","s","/","P","r","o","m","p","t","s","/","P","L","A","N","N","I","N","G","-","U","i",".","m","d">>, type |-> "blob"],
  [path |-> ExecutionPrefix \o <<"u","i">> \o DotMd,                       type |-> "blob"],
  [path |-> <<"D","o","c","s","/","P","r","o","m","p","t","s","/","d","b",".","M","D">>, type |-> "blob"],
  [path |-> StatusPrefix \o <<"u","i">> \o DotMd,                          type |-> "blob"],
  [path |-> ProgressPrefix \o <<"d","b">> \o DotMd,                        type |-> "blob"],
  [path |-> SysPlansPrefix \o <<"d","b","/","p">> \o DotMd,                type |-> "blob"],
  [path |-> <<"A","g","e","n","t","s",".","M","D">>,                       type |-> "blob"],
  [path |-> <<"c","l","a","u","d","e",".","m","d">>,                       type |-> "blob"],
  [path |-> GithubAgentsPrefix \o <<"r">> \o DotMd,                        type |-> "blob"],
  [path |-> SysPlansPrefix \o <<"1","-","u","i","-","d","b">> \o DotMd,    type |-> "blob"],
  [path |-> SysPlansPrefix \o <<"x","_","s","h","a","r","e","d">> \o DotMd, type |-> "blob"],
  [path |-> PlanningPrefix \o <<"_","s","h","a","r","e","d">> \o DotMd,    type |-> "blob"],
  [path |-> DocsPromptsPrefix \o <<"s","h","a","r","e","d">> \o DotMd,     type |-> "blob"],
  [path |-> DocsPromptsPrefix \o LookReadme \o DotMd,                      type |-> "blob"],
  [path |-> PlanningPrefix \o DotMd,                                       type |-> "blob"],
  [path |-> GithubAgentsPrefix \o <<"d">>,                                 type |-> "tree"] >>

PathIds == 1..Len(Universe)

\* item.path and item.type of the interned entry k.
PathText(k) == Universe[k].path
ItemType(k) == Universe[k].type

\* The listings of at most MaxTree entries with pairwise distinct paths (a git
\* tree holds a path once), in the order of the universe or in the reverse
\* order, so that any two entries are listed in both orders.
Trees ==
  UNION { {t \in [1..n -> PathIds] :
             \/ \A i, j \in 1..n : i < j => t[i] < t[j]
             \/ \A i, j \in 1..n : i < j => t[i] > t[j]}
          : n \in 0..MaxTree }

\* ------------------------------------------------------------ classification

\* The inner loop of the primary pass over the table from entry i on: the
\* ClassifiedFile of the first entry that matches (break), or none.
RECURSIVE ClassifyFrom(_, _)
ClassifyFrom(k, i) ==
  IF i > Len(patterns) THEN <<>>
  ELSE LET pat == patterns[i]
           m == Match(pat.regex, PathText(k))
       IN  IF m.ok
           THEN LET agentName == IF pat.fixedAgent # NoAgent THEN pat.fixedAgent
                                 ELSE ToUpperCase(m.g1)
                IN  << [path |-> k, fileType |-> pat.fileType, agentName |-> agentName] >>
           ELSE ClassifyFrom(k, i + 1)

ClassifyOne(k) == ClassifyFrom(k, 1)

\* The primary loop without the test of item.type.
RECURSIVE PrimaryFromAnyType(_, _)
PrimaryFromAnyType(t, i) ==
  IF i > Len(t) THEN <<>>
  ELSE ClassifyOne(t[i]) \o PrimaryFromAnyType(t, i + 1)

\* Pass 1: the loop over the tree from item i on.
RECURSIVE PrimaryFrom(_, _)
PrimaryFrom(t, i) ==
  IF i > Len(t) THEN <<>>
  ELSE IF ItemType(t[i]) # "blob" THEN PrimaryFrom(t, i + 1)
  ELSE ClassifyOne(t[i]) \o PrimaryFrom(t, i + 1)

PrimaryPass(t) == PrimaryFrom(t, 1)

\* The values of a sequence in the order of their first occurrence: the
\* iteration order of a Set or of the keys of a Map filled from it.
RECURSIVE Distinct(_)
Distinct(s) ==
  IF s = <<>> THEN <<>>
  ELSE LET d == Distinct(SubSeq(s, 1, Len(s) - 1))
           x == s[Len(s)]
       IN  IF \E i \in 1..Len(d) : d[i] = x THEN d ELSE Append(d, x)

\* The known agents without the filter on "_SHARED".
KnownAgentsUnfiltered(classified) ==
  Distinct([i \in 1..Len(classified) |-> classified[i].agentName])

\* The known agents iterated from the last to the first.
KnownAgentsLastFirst(classified) ==
  LET known == Distinct(SelectSeq([i \in 1..Len(classified) |-> classified[i].agentName],
                                  LAMBDA n : n # SharedKey))
  IN  [i \in 1..Len(known) |-> known[Len(known) + 1 - i]]

\* new Set(classified.map(f => f.agentName).filter(n => n !== "_SHARED"))
KnownAgents(classified) ==
  Distinct(SelectSeq([i \in 1..Len(classified) |-> classified[i].agentName],
                     LAMBDA n : n # SharedKey))

\* A loose plan attributed to an agent named after the file itself.
AttributeFromFileName(k, known, i) ==
  << [path |-> k, fileType |-> "plan",
      agentName |-> ToUpperCase(FileName(PathText(k)))] >>

\* The loop over knownAgents from its i-th member on: the ClassifiedFile of
\* the first agent whose name the upper-cased file name includes, or none.
RECURSIVE AttributeFrom(_, _, _)
AttributeFrom(k, known, i) ==
  IF i > Len(known) THEN <<>>
  ELSE IF Includes(ToUpperCase(FileName(PathText(k))), known[i])
       THEN << [path |-> k, fileType |-> "plan", agentName |-> known[i]] >>
       ELSE AttributeFrom(k, known, i + 1)

\* The loose-plan loop over the tree from item i on; classified grows as the
\* loop goes, knownAgents is fixed before it.
RECURSIVE LooseFrom(_, _, _, _)
LooseFrom(t, i, known, classified) ==
  IF i > Len(t) THEN classified
  ELSE IF \/ ItemType(t[i]) # "blob"
          \/ ~LoosePlanTest(PathText(t[i]))
          \/ \E j \in 1..Len(classified) : classified[j].path = t[i]
       THEN LooseFrom(t, i + 1, known, classified)
       ELSE LooseFrom(t, i + 1, known, classified \o AttributeFrom(t[i], known, 1))

LoosePlanPass(t, classified) == LooseFrom(t, 1, KnownAgents(classified), classified)

\* The loose plans put in front of the files of the primary pass.
ClassifyLooseFirst(t) ==
  LET primary == PrimaryPass(t)
      all == LoosePlanPass(t, primary)
  IN  SubSeq(all, Len(primary) + 1, Len(all)) \o primary

\* classified after both passes.
Classify(t) == LoosePlanPass(t, PrimaryPass(t))

\* ------------------------------------------------------ grouping, work items

\* null, and a value that is not null.
Null == <<>>
Some(x) == <<x>>

\* The null descPath or boundaryPath.
NoPath == 0

\* A grouping that opens a group for every classified file.
AgentMapPerFile(classified) ==
  [g \in 1..Len(classified) |->
     [agentName |-> classified[g].agentName, files |-> <<classified[g]>>]]

\* The groups in the reverse of their insertion order.
AgentMapLastFirst(classified) ==
  LET keys == Distinct([i \in 1..Len(classified) |-> classified[i].agentName])
  IN  [g \in 1..Len(keys) |->
         [agentName |-> keys[Len(keys) + 1 - g],
          files |-> SelectSeq(classified,
                              LAMBDA cf : cf.agentName = keys[Len(keys) + 1 - g])]]

\* Pass 2: agentMap, a Map in insertion order: one entry per agent name in
\* the order of its first classified file, with the agent's files in
\* classification order.
AgentMap(classified) ==
  LET keys == Distinct([i \in 1..Len(classified) |-> classified[i].agentName])
  IN  [g \in 1..Len(keys) |->
         [agentName |-> keys[g],
          files |-> SelectSeq(classified, LAMBDA cf : cf.agentName = keys[g])]]

\* files.find(f => f.fileType === kind): the first such file, as a sequence
\* of at most one member.
Find(files, kind) ==
  LET hits == SelectSeq(files, LAMBDA f : f.fileType = kind)
  IN  IF hits = <<>> THEN <<>> ELSE <<hits[1]>>

\* The description file taken to be the group's first file.
DescPathFirstFile(files) == IF files = <<>> THEN NoPath ELSE files[1].path

\* descFile?.path ?? null
DescPath(files) ==
  LET c == Find(files, "status") \o Find(files, "planning-prompt")
           \o Find(files, "prompt") \o files
  IN  IF c = <<>> THEN NoPath ELSE c[1].path

\* The boundary file falling back to the group's first file.
BoundaryPathAnyFile(files) ==
  LET c == Find(files, "planning-prompt") \o Find(files, "execution-prompt")
           \o Find(files, "prompt") \o files
  IN  IF c = <<>> THEN NoPath ELSE c[1].path

\* boundaryFile?.path ?? null
BoundaryPath(files) ==
  LET c == Find(files, "planning-prompt") \o Find(files, "execution-prompt")
           \o Find(files, "prompt")
  IN  IF c = <<>> THEN NoPath ELSE c[1].path

\* workItems, one per entry of agentMap, in its order.
WorkItems(classified) ==
  LET m == AgentMap(classified)
  IN  [g \in 1..Len(m) |->
         [agentName |-> m[g].agentName,
          files |-> m[g].files,
          descPath |-> DescPath(m[g].files),
          boundaryPath |-> BoundaryPath(m[g].files)]]

\* Array.from(uniquePaths): the non-null descPath and boundaryPath of every
\* work item, each path once, in insertion order.
RECURSIVE WorkPaths(_)
WorkPaths(items) ==
  IF items = <<>> THEN <<>>
  ELSE LET w == items[1]
       IN  (IF w.descPath # NoPath THEN <<w.descPath>> ELSE <<>>)
           \o (IF w.boundaryPath # NoPath THEN <<w.boundaryPath>> ELSE <<>>)
           \o WorkPaths(Tail(items))

\* The paths to fetch in an array instead of a Set.
UniquePathsArray(items) == WorkPaths(items)

UniquePaths(items) == Distinct(WorkPaths(items))

\* The paths of the classified plans alone.
FilePathsToDatePlans(classified) ==
  LET dated == SelectSeq(classified, LAMBDA cf : cf.fileType = "plan")
  IN  Distinct([i \in 1..Len(dated) |-> dated[i].path])

\* Array.from(filePathsToDate): the paths of the classified files of kind
\* plan, status or progress, each once.
FilePathsToDate(classified) ==
  LET dated == SelectSeq(classified,
                 LAMBDA cf : cf.fileType \in {"plan", "status", "progress"})
  IN  Distinct([i \in 1..Len(dated) |-> dated[i].path])

\* ------------------------------------------------------------- the providers

\* The decoded text of each file of the universe on the scanned branch.
RepoContent == <<
  <<"P","\n","#","#"," ","B","o","u","n","d","a","r","i","e","s","\n","-"," ","a","\n"," ","-","b","\n","#","#"," ","O","\n","-"," ","c">>,
  <<"#","#"," ","b","o","u","n","d","a","r","i","e","s","\n","-"," ","e","\n">>,
  <<"1","\n","2","\n","3","\n","4","\n","5","\n","6">>,
  <<"\n","\n","\n","\n","\n","s">>,
  <<>>,
  <<"p">>,
  <<" ","g"," ","\n">>,
  <<"c">>,
  <<"o">>,
  <<>>,
  <<>>,
  <<"#","#"," ","B","o","u","n","d","a","r","i","e","s","\n","\n","#","#"," ","Z">>,
  <<"s","\n","#","#"," ","B","o","u","n","d","a","r","i","e","s","\n","-"," ","k">>,
  <<>>,
  <<>>,
  <<>> >>

\* The author date of the last commit that touches the file.
RepoDate(k) == IF k % 2 = 0 THEN "2026-10-29T08:00:00Z" ELSE "2026-11-01T09:30:00Z"

\* e.message of a failed tree listing.
TreeErrors == {"Not Found", "Bad credentials"}

\* -------------------------------------------------------------- role builder

\* An empty Map, and no request for any path.  A Map is a function on the
\* set of its keys; the requests are counted per requested path.
EmptyCache == <<>>
NoCalls == <<>>

\* map.has(k) and map.get(k) || null
Has(map, k) == k \in DOMAIN map
Get(map, k) == IF k \in DOMAIN map THEN Some(map[k]) ELSE Null

\* A Map that is replaced by a new one-entry Map on every set.
PutReplacing(map, k, v) == [j \in {k} |-> v]

\* map.set(k, v)
Put(map, k, v) == [j \in DOMAIN map \cup {k} |-> IF j = k THEN v ELSE map[j]]

AgentColon == <<"A","g","e","n","t",":"," ">>
BoundariesHeader == <<"#","#"," ","B","o","u","n","d","a","r","i","e","s","\n">>
NextHeader == <<"\n","#","#">>

\* The characters String.prototype.trim and \s remove.
IsSpace(c) == c \in {" ", "\n", "\t", "\r"}

RECURSIVE TrimStart(_)
TrimStart(s) == IF s # <<>> /\ IsSpace(s[1]) THEN TrimStart(Tail(s)) ELSE s

RECURSIVE TrimEnd(_)
TrimEnd(s) ==
  IF s # <<>> /\ IsSpace(s[Len(s)]) THEN TrimEnd(SubSeq(s, 1, Len(s) - 1)) ELSE s

\* String.prototype.trim.
Trim(s) == TrimEnd(TrimStart(s))

\* s.split("\n"): the lines of s, at least one.
RECURSIVE SplitLines(_)
SplitLines(s) ==
  LET nl == {i \in 1..Len(s) : s[i] = "\n"}
      first == CHOOSE i \in nl : \A j \in nl : i <= j
  IN  IF nl = {} THEN <<s>>
      ELSE <<SubSeq(s, 1, first - 1)>> \o SplitLines(Drop(s, first))

\* lines.join("\n")
RECURSIVE JoinLines(_)
JoinLines(lines) ==
  IF lines = <<>> THEN <<>>
  ELSE IF Len(lines) = 1 THEN lines[1]
  ELSE lines[1] \o <<"\n">> \o JoinLines(Tail(lines))

\* The number of lines the description is cut from (slice(0, 5)).
DescLines == 5

\* content.split("\n").slice(0, 5).join("\n").trim() || `Agent: ${agentName}`
DescriptionOf(content, agentName) ==
  LET lines == SplitLines(content)
      head == SubSeq(lines, 1, IF Len(lines) < DescLines THEN Len(lines) ELSE DescLines)
      text == Trim(JoinLines(head))
  IN  IF text # <<>> THEN text ELSE AgentColon \o agentName

\* content.match(/## Boundaries\n([\s\S]*?)(?=\n##|\n$|$)/i): null, or the
\* capture group: from the end of the leftmost header to the nearest place
\* that is followed by "\n##", by a last "\n", or by nothing.
BoundaryMatch(content) ==
  LET heads == {i \in 0..(Len(content) - Len(BoundariesHeader)) :
                  StartsWithI(Drop(content, i), BoundariesHeader)}
      h == CHOOSE i \in heads : \A j \in heads : i <= j
      from == h + Len(BoundariesHeader)
      stops == {j \in from..Len(content) :
                  \/ StartsWith(Drop(content, j), NextHeader)
                  \/ Drop(content, j) = <<"\n">>
                  \/ j = Len(content)}
      stop == CHOOSE j \in stops : \A i \in stops : j <= i
  IN  IF heads = {} THEN NoMatch ELSE Matched(SubSeq(content, from + 1, stop))

\* l.replace(/^-\s*/, "").trim()
StripDash(l) ==
  Trim(IF l # <<>> /\ l[1] = "-" THEN TrimStart(Tail(l)) ELSE l)

\* boundaryMatch[1].split("\n").filter(l => l.trim().startsWith("-")).map(...)
BoundaryLines(group) ==
  LET kept == SelectSeq(SplitLines(group), LAMBDA l : StartsWith(Trim(l), <<"-">>))
  IN  [i \in 1..Len(kept) |-> StripDash(kept[i])]

\* The description of a work item, from the content cache.
RoleDescription(w, cache) ==
  IF w.descPath # NoPath /\ Has(cache, w.descPath) /\ cache[w.descPath] # <<>>
  THEN Some(DescriptionOf(cache[w.descPath], w.agentName))
  ELSE Null

\* boundaries && boundaries.length > 0 ? boundaries : null
RoleBoundaries(w, cache) ==
  IF w.boundaryPath # NoPath /\ Has(cache, w.boundaryPath)
     /\ cache[w.boundaryPath] # <<>>
     /\ BoundaryMatch(cache[w.boundaryPath]).ok
     /\ BoundaryLines(BoundaryMatch(cache[w.boundaryPath]).g1) # <<>>
  THEN Some(BoundaryLines(BoundaryMatch(cache[w.boundaryPath]).g1))
  ELSE Null

\* The category decided by the planning prompt alone.
CategoryPlanningOnly(agentName, files) ==
  IF agentName = SharedKey THEN "shared"
  ELSE IF \E i \in 1..Len(files) : files[i].fileType = "planning-prompt"
       THEN "domain" ELSE "daily"

\* The category of a group.
Category(agentName, files) ==
  LET hasPlanning == \E i \in 1..Len(files) : files[i].fileType = "planning-prompt"
      hasExecution == \E i \in 1..Len(files) : files[i].fileType = "execution-prompt"
  IN  IF agentName = SharedKey THEN "shared"
      ELSE IF hasPlanning \/ hasExecution THEN "domain" ELSE "daily"

\* The group key shown as it is.
DisplayNameRaw(agentName) == agentName

DisplayName(agentName) == IF agentName = SharedKey THEN SharedDisplay ELSE agentName

\* files.map(f => ({ path, type, date: fileDateCache.get(f.path) || null }))
RoleFiles(files, dates) ==
  [i \in 1..Len(files) |->
     [path |-> files[i].path, type |-> files[i].fileType, date |-> Get(dates, files[i].path)]]

\* The role pushed for one work item.
BuildRole(w, cache, dates) ==
  [name |-> DisplayName(w.agentName),
   description |-> RoleDescription(w, cache),
   files |-> RoleFiles(w.files, dates),
   category |-> Category(w.agentName, w.files),
   boundaries |-> RoleBoundaries(w, cache),
   status |-> "active"]

\* The roles of the work items whose description could be read.
BuildRolesDescribed(items, cache, dates) ==
  LET read == SelectSeq(items, LAMBDA w : RoleDescription(w, cache) # Null)
  IN  [g \in 1..Len(read) |-> BuildRole(read[g], cache, dates)]

\* roles, one per work item, in the order of workItems.
BuildRoles(items, cache, dates) ==
  [g \in 1..Len(items) |-> BuildRole(items[g], cache, dates)]

\* ------------------------------------------------------- the answer of a scan

\* The Set of the members of a sequence.
Range(s) == {s[i] : i \in 1..Len(s)}

\* What the handler answers for the listing t when the content requests for
\* the paths in contentRejected and the date requests for the paths in
\* dateRejected are rejected and every other request resolves: both passes,
\* the grouping, the two batches and the role builder.
ScanAnswer(t, contentRejected, dateRejected) ==
  LET cl == Classify(t)
      items == WorkItems(cl)
      read == {k \in Range(UniquePaths(items)) \ contentRejected : RepoContent[k] # <<>>}
      dated == Range(FilePathsToDate(cl)) \ dateRejected
  IN  BuildRoles(items, [k \in read |-> RepoContent[k]], [k \in dated |-> RepoDate(k)])

\* ------------------------------------------------------ the client's database

\* The repositories the client holds, and the pages that act on them.
RepoIds == {"r1", "r2"}
Clients == {1, 2}

\* The listings whose scan the server answers to a client.
AnswerTrees == {<<>>, <<6>>, <<2, 10>>, <<4, 6>>}

\* The object stores with a by-repo index.
IndexedStores == {"agentRoles", "analysisResults", "activityEvents"}

\* A database that holds the repositories and nothing else.
EmptyStore ==
  [repositories |-> RepoIds, agentRoles |-> {}, analysisResults |-> {},
   activityEvents |-> {}]

\* role.files?.filter(f => f.type === "plan").length ?? 0
PlanCountFiles(role) == Len(role.files)

PlanCount(role) ==
  Cardinality({i \in 1..Len(role.files) : role.files[i].type = "plan"})

\* The AgentRole put for a scanned role: { ...role, id, repositoryId,
\* planCount, .. }.
NewAgentRole(id, repositoryId, role) ==
  [id |-> id, repositoryId |-> repositoryId, role |-> role,
   planCount |-> PlanCount(role)]

\* A database left by earlier scans and analyses of both repositories.
SeededStore ==
  [repositories |-> RepoIds,
   agentRoles |-> {NewAgentRole(1, "r1", ScanAnswer(<<6>>, {}, {})[1]),
                   NewAgentRole(2, "r1", ScanAnswer(<<2, 10>>, {}, {})[1]),
                   NewAgentRole(3, "r2", ScanAnswer(<<6>>, {}, {})[1])},
   analysisResults |-> {[id |-> 4, repositoryId |-> "r1"],
                        [id |-> 5, repositoryId |-> "r2"]},
   activityEvents |-> {[id |-> 6, repositoryId |-> "r1"],
                       [id |-> 7, repositoryId |-> "r2"]}]

\* The ids a database holds.
IdsIn(db) ==
  {x.id : x \in db.agentRoles \cup db.analysisResults \cup db.activityEvents}

\* index.getAll(repositoryId) on the by-repo index of an object store.
ByRepo(records, repositoryId) == {x \in records : x.repositoryId = repositoryId}

\* The records of a getAll in key order.
RECURSIVE InKeyOrder(_)
InKeyOrder(records) ==
  IF records = {} THEN <<>>
  ELSE LET x == CHOOSE y \in records : \A z \in records : y.id <= z.id
       IN  <<x>> \o InKeyOrder(records \ {x})

\* The object stores deleteRepository walks inside its transaction, in order.
CascadeRolesOnly == <<"agentRoles">>

CascadeStores == <<"agentRoles", "analysisResults", "activityEvents">>

\* A client that runs no operation.
IdleClient ==
  [op |-> "none", at |-> "idle", repo |-> "", tx |-> FALSE, roles |-> <<>>,
   found |-> <<>>, pending |-> <<>>, todo |-> <<>>, created |-> <<>>, stage |-> 0,
   scanning |-> FALSE, status |-> 0]

\* ------------------------------------------------------------------- state

VARIABLES
  req,             \* the request: are owner and name given, is GITHUB_PAT set
  pc,              \* where the handler is: "start", or the await it is
                   \* suspended at ("tree", "content", "dates"), or "done"
  tree,            \* data.tree of the successful listing
  classified,      \* ClassifiedFile[]
  workItems,       \* AgentWork[]
  contentCalls,    \* per path, the getContent requests issued by this scan
  contentPending,  \* per path, the getContent requests not yet settled
  contentFailed,   \* the paths whose getContent request was rejected
  contentCache,    \* Map path -> decoded text
  dateCalls,       \* per path, the listCommits requests issued by this scan
  datePending,     \* per path, the listCommits requests not yet settled
  dateFailed,      \* the paths whose listCommits request was rejected
  fileDateCache,   \* Map path -> date
  treeError,       \* e.message of the rejected getTree request, or null
  response,        \* what was sent with res.status(..).json(..), or null
  run,             \* 1 for a scan, 2 for its repetition on the same tree
  first,           \* the outcome of the first scan once it is repeated
  peer,            \* the bindings of a second call of the handler that is
                   \* suspended at an await while this one runs, or null
  store,           \* the browser's database: its four object stores
  clients,         \* per client, the position and locals of its operation
  ids,             \* the number of ids generateId() has handed out
  txLog            \* the clients whose transaction completed, in order

vars == <<req, pc, tree, classified, workItems, contentCalls, contentPending,
          contentFailed, contentCache, dateCalls, datePending, dateFailed,
          fileDateCache, treeError, response, run, first,
          peer, store, clients, ids, txLog>>

\* The state kept outside the call of the handler that is running.
dbVars == <<store, clients, ids, txLog>>

\* The number of members of a sequence equal to x.
Occurrences(s, x) == Cardinality({i \in 1..Len(s) : s[i] = x})

\* paths.map(p => fetch(p)) up to the first await of each call: a call
\* returns from the cache when it holds the path and otherwise sends one
\* request.  The result is the number of requests sent per path.
Requests(paths, cache) ==
  [k \in {paths[i] : i \in 1..Len(paths)} |->
     IF Has(cache, k) THEN 0 ELSE Occurrences(paths, k)]

\* The state of a handler that has not started.
Fresh ==
  /\ pc = "start"
  /\ tree = <<>>
  /\ classified = <<>>
  /\ workItems = <<>>
  /\ contentCalls = NoCalls
  /\ contentPending = NoCalls
  /\ contentFailed = {}
  /\ contentCache = EmptyCache
  /\ dateCalls = NoCalls
  /\ datePending = NoCalls
  /\ dateFailed = {}
  /\ fileDateCache = EmptyCache
  /\ treeError = Null
  /\ response = Null

\* No client acts on the database.
Quiet ==
  /\ clients = [c \in Clients |-> IdleClient]
  /\ txLog = <<>>

Init ==
  /\ req \in [owner : BOOLEAN, name : BOOLEAN, pat : BOOLEAN]
  /\ Fresh
  /\ run = 1
  /\ first = Null
  /\ peer = Null
  /\ store = EmptyStore
  /\ ids = 0
  /\ Quiet

scanVars == <<tree, classified, workItems, contentCalls, contentPending,
              contentFailed, contentCache, dateCalls, datePending, dateFailed,
              fileDateCache>>

\* The message of the outer catch, which names no cause.
TreeErrorGeneric(cause) == "Failed to scan repository."

\* "Failed to fetch repo tree: " + e.message
TreeErrorMessage(cause) == "Failed to fetch repo tree: " \o cause

\* res.status(400).json({ message: "owner and name are required" })
RejectBody ==
  /\ pc = "start"
  /\ ~req.owner \/ ~req.name
  /\ response' = Some([status |-> 400, message |-> "owner and name are required"])
  /\ pc' = "done"
  /\ UNCHANGED <<req, scanVars, treeError, run, first, peer, dbVars>>

\* getOctokit() throws; the outer catch answers 500 with safeErrorMessage,
\* which passes a message that names an environment variable.
RejectNoToken ==
  /\ pc = "start"
  /\ req.owner /\ req.name
  /\ ~req.pat
  /\ response' = Some([status |-> 500,
                       message |-> "GITHUB_PAT environment variable is not set"])
  /\ pc' = "done"
  /\ UNCHANGED <<req, scanVars, treeError, run, first, peer, dbVars>>

\* The handler up to await octokit.rest.git.getTree(..).
RequestTree ==
  /\ pc = "start"
  /\ req.owner /\ req.name /\ req.pat
  /\ pc' = "tree"
  /\ UNCHANGED <<req, scanVars, treeError, response, run, first, peer, dbVars>>

\* The catch of getTree answering without returning: the handler goes on
\* with the empty tree.
TreeFailsFallsThrough(cause) ==
  /\ pc = "tree"
  /\ treeError' = Some(cause)
  /\ response' = Some([status |-> 400, message |-> TreeErrorMessage(cause)])
  /\ pc' = "content"
  /\ UNCHANGED <<req, scanVars, run, first, peer, dbVars>>

\* getTree rejects with e:
\* res.status(400).json({ message: "Failed to fetch repo tree: " + e.message })
TreeFails(cause) ==
  /\ pc = "tree"
  /\ treeError' = Some(cause)
  /\ response' = Some([status |-> 400, message |-> TreeErrorMessage(cause)])
  /\ pc' = "done"
  /\ UNCHANGED <<req, scanVars, run, first, peer, dbVars>>

\* getTree resolves with the listing t: both passes, the grouping and the
\* work items run without suspension, and every fetchContent call is made,
\* up to await Promise.all(..).
TreeListed(t) ==
  /\ pc = "tree"
  /\ run = 2 => t = first[1].tree
  /\ peer # Null => Len(t) + Len(peer[1].tree) <= MaxPairFiles
  /\ tree' = t
  /\ classified' = Classify(t)
  /\ workItems' = WorkItems(classified')
  /\ contentCalls' = Requests(UniquePaths(workItems'), contentCache)
  /\ contentPending' = contentCalls'
  /\ pc' = "content"
  /\ UNCHANGED <<req, contentFailed, contentCache, dateCalls, datePending,
                 dateFailed, fileDateCache, treeError, response, run, first, peer, dbVars>>

\* getTree resolves with some listing of the universe.
TreeResolves == pc = "tree" /\ \E t \in Trees : TreeListed(t)

\* getContent for path k resolves: the text is cached when data.content is
\* not empty.
ContentArrives(k) ==
  /\ pc = "content"
  /\ contentPending[k] > 0
  /\ contentPending' = [contentPending EXCEPT ![k] = @ - 1]
  /\ contentCache' = IF RepoContent[k] # <<>>
                     THEN Put(contentCache, k, RepoContent[k])
                     ELSE contentCache
  /\ UNCHANGED <<req, pc, tree, classified, workItems, contentCalls,
                 contentFailed, dateCalls, datePending, dateFailed,
                 fileDateCache, treeError, response, run, first, peer, dbVars>>

\* getContent for path k rejects: catch { /* skip */ }.
ContentFails(k) ==
  /\ pc = "content"
  /\ contentPending[k] > 0
  /\ contentPending' = [contentPending EXCEPT ![k] = @ - 1]
  /\ contentFailed' = contentFailed \cup {k}
  /\ UNCHANGED <<req, pc, tree, classified, workItems, contentCalls,
                 contentCache, dateCalls, datePending, dateFailed,
                 fileDateCache, treeError, response, run, first, peer, dbVars>>

\* Promise.all of the content batch resolves; every fetchFileDate call is
\* made, up to the second await Promise.all(..).
ContentJoined ==
  /\ pc = "content"
  /\ \A k \in DOMAIN contentPending : contentPending[k] = 0
  /\ dateCalls' = Requests(FilePathsToDate(classified), fileDateCache)
  /\ datePending' = dateCalls'
  /\ pc' = "dates"
  /\ UNCHANGED <<req, tree, classified, workItems, contentCalls,
                 contentPending, contentFailed, contentCache, dateFailed,
                 fileDateCache, treeError, response, run, first, peer, dbVars>>

\* listCommits for path k resolves with its last commit.
DateArrives(k) ==
  /\ pc = "dates"
  /\ datePending[k] > 0
  /\ datePending' = [datePending EXCEPT ![k] = @ - 1]
  /\ fileDateCache' = Put(fileDateCache, k, RepoDate(k))
  /\ UNCHANGED <<req, pc, tree, classified, workItems, contentCalls,
                 contentPending, contentFailed, contentCache, dateCalls,
                 dateFailed, treeError, response, run, first, peer, dbVars>>

\* listCommits for path k rejects: catch {}.
DateFails(k) ==
  /\ pc = "dates"
  /\ datePending[k] > 0
  /\ datePending' = [datePending EXCEPT ![k] = @ - 1]
  /\ dateFailed' = dateFailed \cup {k}
  /\ UNCHANGED <<req, pc, tree, classified, workItems, contentCalls,
                 contentPending, contentFailed, contentCache, dateCalls,
                 fileDateCache, treeError, response, run, first, peer, dbVars>>

\* The roles are built and sent while date requests may still be in flight.
RolesSentEarly ==
  /\ pc = "dates"
  /\ response' = Some([status |-> 200,
                       roles |-> BuildRoles(workItems, contentCache, fileDateCache)])
  /\ pc' = "done"
  /\ UNCHANGED <<req, scanVars, treeError, run, first, peer, dbVars>>

\* Promise.all of the date batch resolves; the roles are built from the two
\* caches and sent: res.json(roles).
RolesSent ==
  /\ pc = "dates"
  /\ \A k \in DOMAIN datePending : datePending[k] = 0
  /\ response' = Some([status |-> 200,
                       roles |-> BuildRoles(workItems, contentCache, fileDateCache)])
  /\ pc' = "done"
  /\ UNCHANGED <<req, scanVars, treeError, run, first, peer, dbVars>>

Next ==
  \/ RejectBody
  \/ RejectNoToken
  \/ RequestTree
  \/ \E cause \in TreeErrors : TreeFails(cause)
  \/ TreeResolves
  \/ \E k \in DOMAIN contentPending : ContentArrives(k)
  \/ \E k \in DOMAIN contentPending : ContentFails(k)
  \/ ContentJoined
  \/ \E k \in DOMAIN datePending : DateArrives(k)
  \/ \E k \in DOMAIN datePending : DateFails(k)
  \/ RolesSent

Spec == Init /\ [][Next]_vars

\* The same repository is scanned again after a scan that sent roles: the
\* handler starts afresh (every collection of a scan is local to the call),
\* and the tree provider returns the listing it returned before.
Rescan ==
  /\ pc = "done"
  /\ run = 1
  /\ response # Null /\ response[1].status = 200
  /\ Len(tree) <= MaxRescanTree
  /\ first' = Some([tree |-> tree, contentFailed |-> contentFailed,
                    dateFailed |-> dateFailed, response |-> response[1]])
  /\ run' = 2
  /\ pc' = "start"
  /\ tree' = <<>>
  /\ classified' = <<>>
  /\ workItems' = <<>>
  /\ contentCalls' = NoCalls
  /\ contentPending' = NoCalls
  /\ contentFailed' = {}
  /\ contentCache' = EmptyCache
  /\ dateCalls' = NoCalls
  /\ datePending' = NoCalls
  /\ dateFailed' = {}
  /\ fileDateCache' = EmptyCache
  /\ treeError' = Null
  /\ response' = Null
  /\ UNCHANGED <<req, peer, dbVars>>

NextTwice == Next \/ Rescan

SpecTwice == Init /\ [][NextTwice]_vars

\* ------------------------------------------------- the client and its database

\* The state of the handler call, which no client step touches.
handlerVars == <<req, pc, scanVars, treeError, response, run, first, peer>>

\* A readwrite transaction whose scope includes agentRoles starts its
\* requests only when no other such transaction is live.
TxUnserialized(c) == TRUE

TxSerialized(c) == \A d \in Clients \ {c} : ~clients[d].tx

\* Where setAgentRoles continues after a delete or put: the next delete, the
\* first put, or tx.done.
SetContinues(pending, todo) ==
  IF pending # <<>> THEN "delete" ELSE IF todo # <<>> THEN "put" ELSE "commit"

\* handleScan on the page of repository r, up to await apiRequest(..).
HandleScan(c, r) ==
  /\ clients[c].at = "idle"
  /\ clients' = [clients EXCEPT ![c] =
                   [IdleClient EXCEPT !.op = "scan", !.at = "post", !.repo = r,
                                      !.scanning = TRUE]]
  /\ UNCHANGED <<handlerVars, store, ids, txLog>>

\* The server answers the roles of a scan: res.json(), then setAgentRoles up
\* to its first request, await index.getAll(repositoryId).
ScanAnswered(c, t) ==
  /\ clients[c].at = "post"
  /\ clients' = [clients EXCEPT ![c].roles = ScanAnswer(t, {}, {}),
                                ![c].todo = ScanAnswer(t, {}, {}),
                                ![c].status = 200,
                                ![c].at = "getAll"]
  /\ UNCHANGED <<handlerVars, store, ids, txLog>>

\* The statuses of the answers of the scan route that carry no roles.
ErrorStatuses == {400, 500}

\* apiRequest rejects when the answer's status is not a success.
ApiRequestThrows(status) == status \notin 200..299

\* The catch taken to store the roles of a failed scan, none.
ScanRejectedClears(c, status) ==
  /\ clients[c].at = "post"
  /\ ApiRequestThrows(status)
  /\ clients' = [clients EXCEPT ![c].status = status, ![c].at = "getAll"]
  /\ UNCHANGED <<handlerVars, store, ids, txLog>>

\* The server answers an error and apiRequest throws: the catch shows
\* "Scan failed" and the finally block ends the scanning state.
ScanRejected(c, status) ==
  /\ clients[c].at = "post"
  /\ ApiRequestThrows(status)
  /\ clients' = [clients EXCEPT ![c].status = status,
                                ![c].scanning = FALSE,
                                ![c].at = "failed"]
  /\ UNCHANGED <<handlerVars, store, ids, txLog>>

\* setAgentRoles: index.getAll(repositoryId) resolves.
SetGetAll(c) ==
  /\ clients[c].at = "getAll"
  /\ TxSerialized(c)
  /\ LET found == InKeyOrder(ByRepo(store.agentRoles, clients[c].repo))
     IN  clients' = [clients EXCEPT ![c].tx = TRUE,
                                    ![c].found = found,
                                    ![c].pending = found,
                                    ![c].at = SetContinues(found, clients[c].todo)]
  /\ UNCHANGED <<handlerVars, store, ids, txLog>>

\* setAgentRoles: tx.store.delete(existing.id) resolves.
SetDelete(c) ==
  /\ clients[c].at = "delete"
  /\ store' = [store EXCEPT !.agentRoles =
                 {x \in @ : x.id # clients[c].pending[1].id}]
  /\ clients' = [clients EXCEPT ![c].pending = Tail(@),
                                ![c].at = SetContinues(Tail(clients[c].pending),
                                                       clients[c].todo)]
  /\ UNCHANGED <<handlerVars, ids, txLog>>

\* setAgentRoles: tx.store.put(agentRole) resolves for the next role.
SetPut(c) ==
  /\ clients[c].at = "put"
  /\ LET agentRole == NewAgentRole(ids + 1, clients[c].repo, clients[c].todo[1])
     IN  /\ store' = [store EXCEPT !.agentRoles = @ \cup {agentRole}]
         /\ clients' = [clients EXCEPT ![c].created = Append(@, agentRole),
                                       ![c].todo = Tail(@),
                                       ![c].at = SetContinues(<<>>, Tail(clients[c].todo))]
  /\ ids' = ids + 1
  /\ UNCHANGED <<handlerVars, txLog>>

\* setAgentRoles: tx.done resolves and handleScan ends.
SetDone(c) ==
  /\ clients[c].at = "commit"
  /\ clients' = [clients EXCEPT ![c].tx = FALSE, ![c].scanning = FALSE,
                                ![c].at = "done"]
  /\ txLog' = Append(txLog, c)
  /\ UNCHANGED <<handlerVars, store, ids>>

\* Where deleteRepository continues after a getAll or delete at a stage: the
\* next delete, the getAll of the next object store, or tx.done.
DelContinues(pending, stage) ==
  IF pending # <<>> THEN [at |-> "ddelete", stage |-> stage]
  ELSE IF stage < Len(CascadeStores) THEN [at |-> "dgetAll", stage |-> stage + 1]
  ELSE [at |-> "dcommit", stage |-> stage]

\* deleteRepository(r), up to await database.delete("repositories", id).
DeleteRepository(c, r) ==
  /\ clients[c].at = "idle"
  /\ clients' = [clients EXCEPT ![c] =
                   [IdleClient EXCEPT !.op = "delete", !.at = "drepo", !.repo = r]]
  /\ UNCHANGED <<handlerVars, store, ids, txLog>>

\* database.delete("repositories", id) resolves; the transaction over the
\* three indexed stores is created and its first getAll is requested.
DelRepoRecord(c) ==
  /\ clients[c].at = "drepo"
  /\ store' = [store EXCEPT !.repositories = @ \ {clients[c].repo}]
  /\ clients' = [clients EXCEPT ![c].at = "dgetAll", ![c].stage = 1]
  /\ UNCHANGED <<handlerVars, ids, txLog>>

\* deleteRepository: the getAll(id) of the object store at this stage resolves.
DelGetAll(c) ==
  /\ clients[c].at = "dgetAll"
  /\ clients[c].tx \/ TxSerialized(c)
  /\ LET found == InKeyOrder(ByRepo(store[CascadeStores[clients[c].stage]],
                                    clients[c].repo))
         nxt == DelContinues(found, clients[c].stage)
     IN  clients' = [clients EXCEPT ![c].tx = TRUE,
                                    ![c].found = found,
                                    ![c].pending = found,
                                    ![c].at = nxt.at,
                                    ![c].stage = nxt.stage]
  /\ UNCHANGED <<handlerVars, store, ids, txLog>>

\* deleteRepository: the delete of the next record found resolves.
DelOne(c) ==
  /\ clients[c].at = "ddelete"
  /\ LET nxt == DelContinues(Tail(clients[c].pending), clients[c].stage)
     IN  /\ store' = [store EXCEPT ![CascadeStores[clients[c].stage]] =
                        {x \in @ : x.id # clients[c].pending[1].id}]
         /\ clients' = [clients EXCEPT ![c].pending = Tail(@),
                                       ![c].at = nxt.at,
                                       ![c].stage = nxt.stage]
  /\ UNCHANGED <<handlerVars, ids, txLog>>

\* deleteRepository: tx.done resolves.
DelDone(c) ==
  /\ clients[c].at = "dcommit"
  /\ clients' = [clients EXCEPT ![c].tx = FALSE, ![c].at = "done"]
  /\ txLog' = Append(txLog, c)
  /\ UNCHANGED <<handlerVars, store, ids>>

\* The database as the clients find it: left by earlier use, or new.
InitDb ==
  /\ req = [owner |-> TRUE, name |-> TRUE, pat |-> TRUE]
  /\ Fresh
  /\ run = 1
  /\ first = Null
  /\ peer = Null
  /\ store \in {EmptyStore, SeededStore}
  /\ ids = Cardinality(IdsIn(store))
  /\ Quiet

NextDb ==
  \E c \in Clients :
    \/ \E r \in RepoIds : HandleScan(c, r)
    \/ \E t \in AnswerTrees : ScanAnswered(c, t)
    \/ \E status \in ErrorStatuses : ScanRejected(c, status)
    \/ SetGetAll(c)
    \/ SetDelete(c)
    \/ SetPut(c)
    \/ SetDone(c)
    \/ \E r \in RepoIds : DeleteRepository(c, r)
    \/ DelRepoRecord(c)
    \/ DelGetAll(c)
    \/ DelOne(c)
    \/ DelDone(c)

SpecDb == InitDb /\ [][NextDb]_vars

\* ---------------------------------------------- two calls of the handler

\* The bindings of the call that is running: its request, its position and
\* every collection it declared.
Locals ==
  [req |-> req, pc |-> pc, tree |-> tree, classified |-> classified,
   workItems |-> workItems, contentCalls |-> contentCalls,
   contentPending |-> contentPending, contentFailed |-> contentFailed,
   contentCache |-> contentCache, dateCalls |-> dateCalls,
   datePending |-> datePending, dateFailed |-> dateFailed,
   fileDateCache |-> fileDateCache, treeError |-> treeError,
   response |-> response]

\* The bindings of a call for request r that has not started.
FreshLocals(r) ==
  [req |-> r, pc |-> "start", tree |-> <<>>, classified |-> <<>>,
   workItems |-> <<>>, contentCalls |-> NoCalls, contentPending |-> NoCalls,
   contentFailed |-> {}, contentCache |-> EmptyCache, dateCalls |-> NoCalls,
   datePending |-> NoCalls, dateFailed |-> {}, fileDateCache |-> EmptyCache,
   treeError |-> Null, response |-> Null]

\* The other call runs with the two caches of the call that ran before it,
\* as if they were declared outside the handler.
SwitchSharingCaches ==
  /\ peer # Null
  /\ peer' = Some(Locals)
  /\ req' = peer[1].req
  /\ pc' = peer[1].pc
  /\ tree' = peer[1].tree
  /\ classified' = peer[1].classified
  /\ workItems' = peer[1].workItems
  /\ contentCalls' = peer[1].contentCalls
  /\ contentPending' = peer[1].contentPending
  /\ contentFailed' = peer[1].contentFailed
  /\ dateCalls' = peer[1].dateCalls
  /\ datePending' = peer[1].datePending
  /\ dateFailed' = peer[1].dateFailed
  /\ treeError' = peer[1].treeError
  /\ response' = peer[1].response
  /\ UNCHANGED <<contentCache, fileDateCache, run, first, dbVars>>

\* The running call is suspended at an await (or has returned) and the event
\* loop continues the other call, which finds its own bindings: every
\* collection of the handler is declared inside the call.
Switch ==
  /\ peer # Null
  /\ peer' = Some(Locals)
  /\ req' = peer[1].req
  /\ pc' = peer[1].pc
  /\ tree' = peer[1].tree
  /\ classified' = peer[1].classified
  /\ workItems' = peer[1].workItems
  /\ contentCalls' = peer[1].contentCalls
  /\ contentPending' = peer[1].contentPending
  /\ contentFailed' = peer[1].contentFailed
  /\ contentCache' = peer[1].contentCache
  /\ dateCalls' = peer[1].dateCalls
  /\ datePending' = peer[1].datePending
  /\ dateFailed' = peer[1].dateFailed
  /\ fileDateCache' = peer[1].fileDateCache
  /\ treeError' = peer[1].treeError
  /\ response' = peer[1].response
  /\ UNCHANGED <<run, first, dbVars>>

\* A request that passes the validation and finds the token set.
ValidRequest == [owner |-> TRUE, name |-> TRUE, pat |-> TRUE]

\* Two valid requests have reached the server; one call runs first.
InitPair ==
  /\ req = ValidRequest
  /\ Fresh
  /\ run = 1
  /\ first = Null
  /\ peer = Some(FreshLocals(ValidRequest))
  /\ store = EmptyStore
  /\ ids = 0
  /\ Quiet

\* A step of the running call from one await to the next, or the event loop
\* turning to the other call.
NextPair ==
  \/ RequestTree
  \/ \E cause \in TreeErrors : TreeFails(cause)
  \/ TreeResolves
  \/ \E k \in DOMAIN contentPending : ContentArrives(k)
  \/ \E k \in DOMAIN contentPending : ContentFails(k)
  \/ ContentJoined
  \/ \E k \in DOMAIN datePending : DateArrives(k)
  \/ \E k \in DOMAIN datePending : DateFails(k)
  \/ RolesSent
  \/ Switch

SpecPair == InitPair /\ [][NextPair]_vars

\* ------------------------------------------------------------------ claims

\* The scan has answered with the role list.
Sent200 == response # Null /\ response[1].status = 200

\* The roles of the answer.
SentRoles == response[1].roles

\* The requests issued for path k.
CallsFor(calls, k) == IF k \in DOMAIN calls THEN calls[k] ELSE 0

\* The positions of path k in the classified list.
ClassifiedAt(k) == {j \in 1..Len(classified) : classified[j].path = k}

\* The roles of the answer that list path k.
RolesListing(k) ==
  {g \in 1..Len(SentRoles) :
     \E i \in 1..Len(SentRoles[g].files) : SentRoles[g].files[i].path = k}

\* The text of p between a prefix and a suffix of the given lengths.
Between(p, pre, suf) == SubSeq(p, Len(pre) + 1, Len(p) - Len(suf))

\* p reads <pre><X><suf> in any letter case, with X not empty and free of "/".
HasForm(p, pre, suf) ==
  /\ Len(p) > Len(pre) + Len(suf)
  /\ NoSlash(Between(p, pre, suf))
  /\ EqualsI(p, pre \o Between(p, pre, suf) \o suf)

\* u is x with every letter in upper case.
IsUpperCaseOf(u, x) ==
  /\ Len(u) = Len(x)
  /\ \A i \in 1..Len(x) : u[i] = UpperChar(x[i])

\* The blob entries of the listing whose path reads docs/prompts/planning-<X>.md.
PlanningBlobs ==
  {k \in {tree[i] : i \in 1..Len(tree)} :
     ItemType(k) = "blob" /\ HasForm(PathText(k), PlanningPrefix, DotMd)}

\* C1: every blob path docs/prompts/planning-<X>.md of the tree (in any letter
\* case, X not empty and without "/") is classified exactly once, with kind
\* planning-prompt and agentName X in upper case, never with kind prompt.
C1_PlanningPrompt ==
  \A k \in PlanningBlobs :
    /\ Cardinality(ClassifiedAt(k)) = 1
    /\ \A j \in ClassifiedAt(k) :
         /\ classified[j].fileType = "planning-prompt"
         /\ IsUpperCaseOf(classified[j].agentName,
                          Between(PathText(k), PlanningPrefix, DotMd))

\* A planning prompt written in mixed letter case has been classified, next to
\* a path that starts like one and is none (planning-.md).
C1_Witness ==
  /\ pc = "content"
  /\ \E k \in PlanningBlobs :
       Between(PathText(k), PlanningPrefix, DotMd) = <<"U","i">>
  /\ \E i \in 1..Len(tree) : PathText(tree[i]) = PlanningPrefix \o DotMd

\* The blob entries of the listing named AGENTS.md or CLAUDE.md in any letter case.
GovernanceBlobs ==
  {k \in {tree[i] : i \in 1..Len(tree)} :
     /\ ItemType(k) = "blob"
     /\ EqualsI(PathText(k), AgentsMd) \/ EqualsI(PathText(k), ClaudeMd)}

\* C2: a blob AGENTS.md or CLAUDE.md (any letter case) is classified with
\* agentName _SHARED, and the answer holds a role named SHARED of category
\* shared that lists it, whatever else the tree holds.
C2_Governance ==
  \A k \in GovernanceBlobs :
    /\ ClassifiedAt(k) # {}
    /\ \A j \in ClassifiedAt(k) : classified[j].agentName = SharedKey
    /\ Sent200 =>
         \E g \in RolesListing(k) :
           /\ SentRoles[g].name = SharedDisplay
           /\ SentRoles[g].category = "shared"

\* The answer lists a governance file, and another role has the name SHARED
\* without being the shared one.
C2_Witness ==
  /\ Sent200
  /\ GovernanceBlobs # {}
  /\ \E g \in 1..Len(SentRoles) :
       SentRoles[g].name = SharedDisplay /\ SentRoles[g].category # "shared"

\* The files of role r include one of kind planning-prompt or execution-prompt.
HasPromptPair(r) ==
  \E i \in 1..Len(r.files) : r.files[i].type \in {"planning-prompt", "execution-prompt"}

\* C3: every returned role is shared iff its group key is _SHARED; otherwise
\* it is domain iff its files hold a planning-prompt or execution-prompt, and
\* daily otherwise.
C3_CategoryRule ==
  Sent200 =>
    /\ Len(SentRoles) = Len(workItems)
    /\ \A g \in 1..Len(SentRoles) :
         LET r == SentRoles[g]
             key == workItems[g].agentName
         IN  /\ r.category \in {"shared", "domain", "daily"}
             /\ r.category = "shared" <=> key = SharedKey
             /\ key # SharedKey => (r.category = "domain" <=> HasPromptPair(r))

\* The answer holds a shared role, a daily role and a domain role that has an
\* execution prompt and no planning prompt.
C3_Witness ==
  /\ Sent200
  /\ \E g \in 1..Len(SentRoles) : SentRoles[g].category = "shared"
  /\ \E g \in 1..Len(SentRoles) : SentRoles[g].category = "daily"
  /\ \E g \in 1..Len(SentRoles) :
       /\ SentRoles[g].category = "domain"
       /\ \A i \in 1..Len(SentRoles[g].files) :
            SentRoles[g].files[i].type # "planning-prompt"

\* C4: the role that lists a blob path docs/prompts/planning-<X>.md has
\* category domain.
C4_PlanningIsDomain ==
  Sent200 =>
    \A k \in PlanningBlobs :
      \A g \in RolesListing(k) : SentRoles[g].category = "domain"

\* The blob entries of the listing that lie directly in .sys/plans/ and end
\* in .md.
LoosePlanBlobs ==
  {k \in {tree[i] : i \in 1..Len(tree)} :
     ItemType(k) = "blob" /\ HasForm(PathText(k), SysPlansPrefix, DotMd)}

\* The agents known from a primary pass: the agent names it produced, the
\* sentinel _SHARED excluded.
AgentsOf(primary) ==
  {primary[j].agentName : j \in 1..Len(primary)} \ {SharedKey}

\* The agents among `agents` whose name the upper-cased file name of the
\* loose plan k contains.
ContainedAgents(k, agents) ==
  LET name == Drop(PathText(k), Len(SysPlansPrefix))
      upper == [i \in 1..Len(name) |-> UpperChar(name[i])]
  IN  {a \in agents : Includes(upper, a)}

\* C5: a loose plan file that the primary pass left unclassified is classified
\* once, as a plan of one of the known agents whose name its upper-cased file
\* name contains, and one role lists it; when it contains none it is
\* classified nowhere and no role lists it.
C5_LoosePlans ==
  Sent200 =>
    LET primary == PrimaryPass(tree)
        agents == AgentsOf(primary)
    IN  \A k \in LoosePlanBlobs :
          (\A j \in 1..Len(primary) : primary[j].path # k) =>
            LET contained == ContainedAgents(k, agents)
            IN  IF contained # {}
                THEN /\ Cardinality(ClassifiedAt(k)) = 1
                     /\ \A j \in ClassifiedAt(k) :
                          /\ classified[j].fileType = "plan"
                          /\ classified[j].agentName \in contained
                     /\ Cardinality(RolesListing(k)) = 1
                ELSE ClassifiedAt(k) = {} /\ RolesListing(k) = {}

\* The answer lists a loose plan under an agent whose name its file name
\* contains, while another loose plan of the same tree is dropped.
C5_Witness ==
  /\ Sent200
  /\ \E k \in LoosePlanBlobs :
       ContainedAgents(k, AgentsOf(PrimaryPass(tree))) # {} /\ RolesListing(k) # {}
  /\ \E k \in LoosePlanBlobs :
       ContainedAgents(k, AgentsOf(PrimaryPass(tree))) = {} /\ ClassifiedAt(k) = {}

\* The repetition of a scan has answered with the role list.
Repeated == run = 2 /\ Sent200

\* C6: a second scan of the same tree, in which the content and date
\* providers reject exactly the requests they rejected in the first scan,
\* returns the role list the first scan returned, field by field.
C6_SameAnswersSameRoles ==
  (/\ Repeated
   /\ contentFailed = first[1].contentFailed
   /\ dateFailed = first[1].dateFailed) => response[1] = first[1].response

\* Both scans of a tree with two roles have answered; the same content
\* request was rejected in both, and another content was read.
C6_Witness ==
  /\ Repeated
  /\ contentFailed = first[1].contentFailed
  /\ dateFailed = first[1].dateFailed
  /\ contentFailed # {}
  /\ DOMAIN contentCache # {}
  /\ Len(SentRoles) > 1

\* The paths some work item names as its descPath or boundaryPath.
WantedPaths ==
  ({workItems[g].descPath : g \in 1..Len(workItems)}
   \cup {workItems[g].boundaryPath : g \in 1..Len(workItems)}) \ {NoPath}

\* C7: in every state of a scan, one content request has been issued for each
\* path that is the descPath or boundaryPath of a group, and none for any
\* other path; the count stays one after the request has failed.
C7_OneContentRequest ==
  pc \in {"content", "dates", "done"} =>
    \A k \in PathIds :
      CallsFor(contentCalls, k) = IF k \in WantedPaths THEN 1 ELSE 0

\* The scan has answered after the one request for a path that is both the
\* descPath and the boundaryPath of a group was rejected.
C7_Witness ==
  /\ Sent200
  /\ \E g \in 1..Len(workItems) :
       /\ workItems[g].descPath = workItems[g].boundaryPath
       /\ workItems[g].descPath \in contentFailed
       /\ CallsFor(contentCalls, workItems[g].descPath) = 1

\* What C8 compares of a role list: the roles in their order, each with its
\* name, category, status and the paths and kinds of its files.
Skeleton(roles) ==
  [g \in 1..Len(roles) |->
     [name |-> roles[g].name,
      category |-> roles[g].category,
      status |-> roles[g].status,
      files |-> [i \in 1..Len(roles[g].files) |->
                   [path |-> roles[g].files[i].path, type |-> roles[g].files[i].type]]]]

\* The first scan met no rejected content or date request.
FirstUnfailed == first[1].contentFailed = {} /\ first[1].dateFailed = {}

\* C8: whatever content and date requests are rejected, a scan whose tree was
\* listed answers with the role list, the role of a group whose descPath
\* request was rejected is there with description null, and the roles agree
\* in order, name, category, status and file paths and kinds with those of a
\* scan of the same tree in which no request was rejected.
C8_FailuresKeepRoles ==
  /\ (pc = "done" /\ req.owner /\ req.name /\ req.pat /\ treeError = Null) =>
       /\ Sent200
       /\ Len(SentRoles) = Len(workItems)
       /\ \A g \in 1..Len(workItems) :
            workItems[g].descPath \in contentFailed => SentRoles[g].description = Null
  /\ (Repeated /\ FirstUnfailed) =>
       Skeleton(SentRoles) = Skeleton(first[1].response.roles)

\* A scan in which a content request and a date request were rejected has
\* answered with roles, after a scan of the same tree without any rejection.
C8_Witness ==
  /\ Repeated
  /\ FirstUnfailed
  /\ contentFailed # {}
  /\ dateFailed # {}
  /\ \E g \in 1..Len(workItems) : workItems[g].descPath \in contentFailed

\* No blob of the listing matches an entry of the pattern table.
NothingMatches ==
  \A i \in 1..Len(tree) :
    ItemType(tree[i]) = "blob" =>
      \A n \in 1..Len(patterns) : ~Match(patterns[n].regex, PathText(tree[i])).ok

\* The tree request of the scan has resolved.
TreeWasListed ==
  \/ pc \in {"content", "dates"}
  \/ pc = "done" /\ req.owner /\ req.name /\ req.pat /\ treeError = Null

\* C9: when no blob of the listed tree matches any pattern, no content request
\* and no date request is issued, and the answer is the empty role list.
C9_NothingMatches ==
  (TreeWasListed /\ NothingMatches) =>
    /\ \A k \in PathIds : CallsFor(contentCalls, k) = 0 /\ CallsFor(dateCalls, k) = 0
    /\ pc = "done" => Sent200 /\ SentRoles = <<>>

\* The scan of a tree that holds a directory, a loose plan and nothing that
\* matches has answered.
C9_Witness ==
  /\ pc = "done"
  /\ TreeWasListed
  /\ NothingMatches
  /\ \E i \in 1..Len(tree) : ItemType(tree[i]) = "tree"
  /\ LoosePlanBlobs # {}

\* C10: when the tree request is rejected the scan has ended with an error
\* answer whose message carries the cause; the answer holds no roles and no
\* content or date request was issued.
C10_TreeFailure ==
  treeError # Null =>
    /\ pc = "done"
    /\ response = Some([status |-> 400,
                        message |-> "Failed to fetch repo tree: " \o treeError[1]])
    /\ \A k \in PathIds : CallsFor(contentCalls, k) = 0 /\ CallsFor(dateCalls, k) = 0

\* The tree request was rejected for bad credentials and the scan has answered.
C10_Witness ==
  /\ treeError = Some("Bad credentials")
  /\ response # Null

\* The requests of a batch that have not settled.
Unsettled(pending) == {k \in DOMAIN pending : pending[k] > 0}

\* The paths whose request of a batch resolved.
Succeeded(calls, pending, failed) ==
  {k \in DOMAIN calls : calls[k] > 0 /\ pending[k] = 0 /\ k \notin failed}

\* C11: the date batch is not started and no answer is sent while a content
\* request is in flight, and no answer is sent while a date request is in
\* flight; the roles of the answer are those built from the caches that hold
\* the text of every content request that resolved with text and the date of
\* every date request that resolved.
C11_BatchesSettleFirst ==
  /\ pc = "dates" => Unsettled(contentPending) = {}
  /\ response # Null =>
       /\ Unsettled(contentPending) = {} /\ Unsettled(datePending) = {}
  /\ Sent200 =>
       /\ \A k \in Succeeded(contentCalls, contentPending, contentFailed) :
            RepoContent[k] # <<>> => Has(contentCache, k)
       /\ \A k \in Succeeded(dateCalls, datePending, dateFailed) :
            Has(fileDateCache, k)
       /\ SentRoles = BuildRoles(workItems, contentCache, fileDateCache)

\* The scan has answered after a content batch and a date batch of more than
\* one request each, with a settled rejection in each.
C11_Witness ==
  /\ Sent200
  /\ Cardinality(DOMAIN contentCalls) > 1
  /\ Cardinality(DOMAIN dateCalls) > 1
  /\ contentFailed # {} /\ contentFailed # DOMAIN contentCalls
  /\ dateFailed # {} /\ dateFailed # DOMAIN dateCalls

\* The kinds of file whose last commit date is fetched.
DatedKinds == {"plan", "status", "progress"}

\* The classified paths of a dated kind.
DatedPaths ==
  {classified[j].path : j \in {i \in 1..Len(classified) :
                                 classified[i].fileType \in DatedKinds}}

\* C12: once the date batch is issued, one date request has been issued for
\* each classified path of kind plan, status or progress and none for any
\* other path; in the answer a file of any other kind has date null, and a
\* file of kind plan, status or progress has a date only if its request was
\* not rejected, and then the date is the one of its last commit.
C12_DateRequests ==
  /\ pc = "dates" \/ Sent200 =>
       LET dated == DatedPaths
       IN  /\ DOMAIN dateCalls = dated
           /\ \A k \in dated : dateCalls[k] = 1
  /\ Sent200 =>
       \A g \in 1..Len(SentRoles) : \A i \in 1..Len(SentRoles[g].files) :
         LET f == SentRoles[g].files[i]
         IN  /\ f.type \notin DatedKinds => f.date = Null
             /\ f.type \in DatedKinds /\ f.date # Null =>
                  /\ f.path \in DOMAIN dateCalls /\ f.path \notin dateFailed
                  /\ f.date = Some(RepoDate(f.path))

\* The scan has answered with a role that lists a dated file whose date
\* arrived, a dated file that is not a representative file and whose request
\* was rejected, and a file of a kind that is not dated.
C12_Witness ==
  /\ Sent200
  /\ \E g \in 1..Len(SentRoles) :
       LET fs == SentRoles[g].files
       IN  /\ \E i \in 1..Len(fs) : fs[i].type \in DatedKinds /\ fs[i].date # Null
           /\ \E i \in 1..Len(fs) :
                /\ fs[i].type \in DatedKinds /\ fs[i].date = Null
                /\ fs[i].path \in dateFailed
                /\ fs[i].path \notin WantedPaths
           /\ \E i \in 1..Len(fs) : fs[i].type \notin DatedKinds

\* The least member of a non-empty set of numbers.
Least(S) == CHOOSE i \in S : \A j \in S : i <= j

\* The header line of the boundaries section.
HeaderLine == SubSeq(BoundariesHeader, 1, Len(BoundariesHeader) - 1)

\* The boundaries C13 states for a text: of the lines after the first
\* `## Boundaries` line and before the next line that starts with `##`, those
\* that start with a dash once trimmed, each without that dash and without
\* the whitespace around it; null without a header line or a dash line.
StatedBoundaries(content) ==
  LET lines == SplitLines(content)
      heads == {i \in 1..Len(lines) : EqualsI(lines[i], HeaderLine)}
      later == {j \in 1..Len(lines) :
                  j > Least(heads) /\ StartsWith(lines[j], <<"#", "#">>)}
      last == IF later = {} THEN Len(lines) ELSE Least(later) - 1
      kept == SelectSeq(SubSeq(lines, Least(heads) + 1, last),
                        LAMBDA l : StartsWith(Trim(l), <<"-">>))
  IN  IF heads = {} \/ kept = <<>> THEN Null
      ELSE Some([i \in 1..Len(kept) |-> Trim(Tail(Trim(kept[i])))])

\* C13: in the answer, the boundaries of a role whose boundaryPath text was
\* fetched are the dash lines of the `## Boundaries` section of that text, in
\* order, each with its leading dash and the surrounding whitespace removed,
\* and null when the text has no such section or the section no dash line.
C13_Boundaries ==
  Sent200 =>
    \A g \in 1..Len(workItems) :
      LET b == workItems[g].boundaryPath
      IN  b # NoPath /\ Has(contentCache, b) =>
            SentRoles[g].boundaries = StatedBoundaries(contentCache[b])

\* The description C14 states for a fetched text: its first five lines,
\* joined and trimmed, or the synthesized string when that is empty.
StatedDescription(content, agentName) ==
  LET lines == SplitLines(content)
      head == SubSeq(lines, 1, IF Len(lines) < 5 THEN Len(lines) ELSE 5)
      text == Trim(JoinLines(head))
  IN  IF text # <<>> THEN text ELSE AgentColon \o agentName

\* C14: in the answer, a role whose descPath request resolved has the
\* description stated for the text of that file, the synthesized string for
\* an empty file included; a role has description null only when the request
\* for its descPath was rejected.
C14_Description ==
  Sent200 =>
    \A g \in 1..Len(workItems) :
      LET d == workItems[g].descPath
      IN  /\ d \in Succeeded(contentCalls, contentPending, contentFailed) =>
               SentRoles[g].description =
                 Some(StatedDescription(RepoContent[d], workItems[g].agentName))
          /\ SentRoles[g].description = Null => d \in contentFailed

\* The agent names of the classified files.
ClassifiedAgents == {classified[j].agentName : j \in 1..Len(classified)}

\* The paths classified under agent name a.
PathsOf(a) ==
  {classified[j].path : j \in {i \in 1..Len(classified) : classified[i].agentName = a}}

\* The positions at which the files of role g list path k.
ListedAt(g, k) ==
  {i \in 1..Len(SentRoles[g].files) : SentRoles[g].files[i].path = k}

\* C19: the answer holds as many roles as there are agent names among the
\* classified files, and the roles correspond one to one to those names, role
\* g to the name of group g: it carries the display name of that name and
\* lists exactly the files classified under it, each once and with its kind;
\* so no role is without a file and every classified file is listed once,
\* in one role.
C19_OneRolePerAgent ==
  Sent200 =>
    LET agents == ClassifiedAgents
        roles == SentRoles
    IN  /\ Len(roles) = Cardinality(agents)
        /\ Len(roles) = Len(workItems)
        /\ {workItems[g].agentName : g \in 1..Len(workItems)} = agents
        /\ \A g \in 1..Len(roles) :
             LET mine == PathsOf(workItems[g].agentName)
             IN  /\ roles[g].name = DisplayName(workItems[g].agentName)
                 /\ roles[g].files # <<>>
                 /\ {roles[g].files[i].path : i \in 1..Len(roles[g].files)} = mine
                 /\ Len(roles[g].files) = Cardinality(mine)
        /\ \A j \in 1..Len(classified) :
             /\ Cardinality(RolesListing(classified[j].path)) = 1
             /\ \A g \in RolesListing(classified[j].path) :
                  \A i \in ListedAt(g, classified[j].path) :
                    roles[g].files[i].type = classified[j].fileType

\* The scan has answered with fewer roles than classified files: one role
\* lists two files, another role exists, and one file was classified by the
\* loose-plan pass.
C19_Witness ==
  /\ Sent200
  /\ Len(SentRoles) = 2
  /\ Len(classified) = 3
  /\ \E j \in 1..Len(classified) : LoosePlanTest(PathText(classified[j].path))

\* The table entries that match path k.
Matching(k) ==
  {n \in 1..Len(patterns) : Match(patterns[n].regex, PathText(k)).ok}

\* What table entry n makes of path k.
ClassifiedBy(n, k) ==
  [path |-> k,
   fileType |-> patterns[n].fileType,
   agentName |-> IF patterns[n].fixedAgent # NoAgent THEN patterns[n].fixedAgent
                 ELSE ToUpperCase(Match(patterns[n].regex, PathText(k)).g1)]

\* The tree has been listed and classified and nothing has settled since.
JustListed == pc = "content" /\ contentPending = contentCalls /\ contentFailed = {}

\* C20: when a listed tree has been classified, every path of it matches at
\* most one entry of the table; a blob is classified at most once, and when
\* an entry matches it the classified file is what that entry makes of it,
\* wherever the entry stands in the table.
C20_PatternsExclusive ==
  JustListed =>
    \A i \in 1..Len(tree) :
      LET k == tree[i]
          hits == Matching(k)
      IN  /\ Cardinality(hits) <= 1
          /\ Cardinality(ClassifiedAt(k)) <= 1
          /\ ItemType(k) = "blob" =>
               \A n \in hits :
                 \E j \in ClassifiedAt(k) : classified[j] = ClassifiedBy(n, k)

\* A tree was listed that holds a planning prompt, a daily prompt whose name
\* only the lookahead keeps from no entry, and a path no entry matches.
C20_Witness ==
  /\ JustListed
  /\ \E i \in 1..Len(tree) : Matching(tree[i]) = {1}
  /\ \E i \in 1..Len(tree) : Matching(tree[i]) = {3}
  /\ \E i \in 1..Len(tree) : Matching(tree[i]) = {} /\ ItemType(tree[i]) = "blob"

\* Client c takes a step of the operation op.
StepOf(c, op) == clients[c].op = op /\ clients'[c] # clients[c]

\* The stored roles of repository r match the role list one to one: a record
\* per element, carrying the element, the repository and the count of the
\* element's plan files.
StoredExactly(db, r, roles) ==
  LET stored == ByRepo(db.agentRoles, r)
  IN  /\ Cardinality(stored) = Len(roles)
      /\ \E f \in [1..Len(roles) -> stored] :
           /\ \A i, j \in 1..Len(roles) : f[i] = f[j] => i = j
           /\ \A i \in 1..Len(roles) :
                /\ f[i].role = roles[i]
                /\ f[i].planCount =
                     Cardinality({n \in 1..Len(roles[i].files) :
                                    roles[i].files[n].type = "plan"})

\* C15: no step of setAgentRoles(r, roles) changes a stored role of another
\* repository or a record of another object store, and when it completes the
\* stored roles of r are one new record per element of roles, with planCount
\* the number of the element's plan files, and none of the roles found stored
\* for r before.
C15_SetAgentRoles ==
  [][\A c \in Clients :
       StepOf(c, "scan") /\ clients[c].tx =>
         /\ \A r \in RepoIds \ {clients[c].repo} :
              ByRepo(store'.agentRoles, r) = ByRepo(store.agentRoles, r)
         /\ store'.repositories = store.repositories
         /\ store'.analysisResults = store.analysisResults
         /\ store'.activityEvents = store.activityEvents
         /\ clients'[c].at = "done" =>
              /\ StoredExactly(store', clients[c].repo, clients[c].roles)
              /\ \A x \in ByRepo(store'.agentRoles, clients[c].repo) :
                   \A i \in 1..Len(clients[c].found) : x.id # clients[c].found[i].id
    ]_vars

\* A scan of a repository with stored roles has replaced them by two new
\* ones, one of which counts a plan beside another file, while the other
\* repository keeps its role.
C15_Witness ==
  \E c \in Clients :
    /\ clients[c].op = "scan" /\ clients[c].at = "done"
    /\ Len(clients[c].found) = 2
    /\ Len(clients[c].roles) = 2
    /\ StoredExactly(store, clients[c].repo, clients[c].roles)
    /\ \E r \in RepoIds \ {clients[c].repo} : ByRepo(store.agentRoles, r) # {}

AllScanned(r) ==
  \A c \in Clients :
    clients[c].op = "scan" /\ clients[c].repo = r /\ clients[c].at = "done"

\* C17: when the scans of all clients of one repository have finished, the
\* roles stored for it are the records the client whose transaction
\* completed last created, one per role of its answer, and no other.
C17_LastWriteWins ==
  \A r \in RepoIds :
    AllScanned(r) =>
      LET last == clients[txLog[Len(txLog)]]
      IN  /\ ByRepo(store.agentRoles, r) = Range(last.created)
          /\ StoredExactly(store, r, last.roles)

\* Two scans of one repository with stored roles have finished with
\* different answers, the second client's transaction first.
C17_Witness ==
  \E r \in RepoIds :
    /\ AllScanned(r)
    /\ txLog = <<2, 1>>
    /\ clients[1].roles # clients[2].roles
    /\ clients[1].roles # <<>> /\ clients[2].roles # <<>>
    /\ clients[1].found # <<>> /\ clients[2].found # <<>>

\* The call with bindings l has listed its tree.
HasListed(l) ==
  \/ l.pc \in {"content", "dates"}
  \/ l.response # Null /\ l.response[1].status = 200

\* The call with bindings l holds nothing of another call and answers as it
\* would alone: its classified files are those of its own tree, its caches
\* hold only what its own resolved requests brought, each of its paths had
\* its own request, and its roles are the answer of a scan of its tree under
\* the rejections it met.
Isolated(l) ==
  /\ HasListed(l) =>
       /\ l.classified = Classify(l.tree)
       /\ \A k \in DOMAIN l.contentCalls : l.contentCalls[k] = 1
       /\ DOMAIN l.contentCache \subseteq
            Succeeded(l.contentCalls, l.contentPending, l.contentFailed)
       /\ DOMAIN l.fileDateCache \subseteq
            Succeeded(l.dateCalls, l.datePending, l.dateFailed)
  /\ l.response # Null /\ l.response[1].status = 200 =>
       l.response[1].roles = ScanAnswer(l.tree, l.contentFailed, l.dateFailed)

\* C18: of two calls of the handler interleaved at their awaits, each keeps
\* to its own classified files and caches and answers the roles a scan of
\* its tree answers alone under the same rejections.
C18_ScansIsolated ==
  peer # Null => Isolated(Locals) /\ Isolated(peer[1])

\* Both calls have answered for the same one-entry tree after being
\* interleaved; the content request of one was rejected and that of the
\* other resolved, and their answers differ.
C18_Witness ==
  /\ peer # Null
  /\ Sent200
  /\ peer[1].response # Null /\ peer[1].response[1].status = 200
  /\ tree # <<>> /\ tree = peer[1].tree
  /\ contentFailed # {} /\ peer[1].contentFailed = {}
  /\ DOMAIN peer[1].contentCache # {}
  /\ SentRoles # peer[1].response[1].roles


\* The classified files of agent a, in classification order.
GroupOf(a) == SelectSeq(classified, LAMBDA cf : cf.agentName = a)

\* The positions of the files of a kind in a group.
KindAt(files, kind) == {i \in 1..Len(files) : files[i].fileType = kind}

\* The path of the first file of the first of `kinds` that the group has a
\* file of, or `none` when it has a file of none of them.
FirstOfKinds(files, kinds, none) ==
  LET had == {n \in 1..Len(kinds) : KindAt(files, kinds[n]) # {}}
  IN  IF had = {} THEN none
      ELSE files[Least(KindAt(files, kinds[Least(had)]))].path

\* C21: for every agent group the file read for the description is the
\* group's first status file if it has one, else its first planning-prompt
\* file, else its first prompt file, else the group's first file; a group is
\* never without one.
C21_DescPath ==
  JustListed =>
    \A g \in 1..Len(workItems) :
      LET files == GroupOf(workItems[g].agentName)
      IN  /\ files # <<>>
          /\ workItems[g].descPath # NoPath
          /\ workItems[g].descPath =
               FirstOfKinds(files, <<"status", "planning-prompt", "prompt">>,
                            files[1].path)

\* A listing with a group whose description file is a status file that is not
\* the group's first file, and a group that holds none of the three kinds and
\* falls back to its first file.
C21_Witness ==
  /\ JustListed
  /\ \E g \in 1..Len(workItems) :
       LET files == GroupOf(workItems[g].agentName)
       IN  /\ KindAt(files, "status") # {}
           /\ workItems[g].descPath # files[1].path
  /\ \E g \in 1..Len(workItems) :
       LET files == GroupOf(workItems[g].agentName)
       IN  /\ KindAt(files, "status") \cup KindAt(files, "planning-prompt")
                \cup KindAt(files, "prompt") = {}
           /\ workItems[g].descPath = files[1].path


\* The kinds of file boundaries are extracted from, in order of preference.
BoundaryKinds == <<"planning-prompt", "execution-prompt", "prompt">>

\* A group holds no file boundaries are extracted from.
NoBoundaryFile(files) == \A n \in 1..Len(BoundaryKinds) : KindAt(files, BoundaryKinds[n]) = {}

\* C22: for every agent group the file read for the boundaries is the group's
\* first planning-prompt file if it has one, else its first execution-prompt
\* file, else its first prompt file, else none; a group with none of the three
\* has no boundary path, no content request is issued for any of its files but
\* its description file, and its role is answered with boundaries null.
C22_BoundaryPath ==
  /\ JustListed =>
       \A g \in 1..Len(workItems) :
         LET files == GroupOf(workItems[g].agentName)
         IN  /\ workItems[g].boundaryPath = FirstOfKinds(files, BoundaryKinds, NoPath)
             /\ NoBoundaryFile(files) =>
                  /\ workItems[g].boundaryPath = NoPath
                  /\ \A i \in 1..Len(files) :
                       files[i].path # workItems[g].descPath
                         => CallsFor(contentCalls, files[i].path) = 0
  /\ Sent200 =>
       \A g \in 1..Len(workItems) :
         NoBoundaryFile(GroupOf(workItems[g].agentName))
           => SentRoles[g].boundaries = Null

\* An answer with a group that holds no prompt of any kind, answered with
\* boundaries null, and a group whose boundary file is an execution
\* prompt other than its description file.
C22_Witness ==
  /\ Sent200
  /\ \E g \in 1..Len(workItems) :
       LET files == GroupOf(workItems[g].agentName)
       IN  /\ NoBoundaryFile(files)
           /\ SentRoles[g].boundaries = Null
  /\ \E g \in 1..Len(workItems) :
       /\ workItems[g].boundaryPath # NoPath
       /\ workItems[g].boundaryPath # workItems[g].descPath
       /\ KindAt(GroupOf(workItems[g].agentName), "execution-prompt") # {}


\* The agent names a classified list holds.
NamesOf(files) == {files[j].agentName : j \in 1..Len(files)}

\* C23: the pass over the loose plans creates no agent: after it the agent
\* names among the classified files, and so the number of groups and of roles,
\* are those of the primary pass, and every loose plan it attributes carries
\* an agent name of the primary pass other than _SHARED.
C23_LoosePassAddsNoAgent ==
  /\ JustListed =>
       LET names == NamesOf(PrimaryPass(tree))
       IN  /\ ClassifiedAgents = names
           /\ Len(workItems) = Cardinality(names)
           /\ \A j \in 1..Len(classified) :
                classified[j].path \in LoosePlanBlobs
                  => classified[j].agentName \in names \ {SharedKey}
  /\ Sent200 => Len(SentRoles) = Cardinality(ClassifiedAgents)

\* A listing with a governance file, grouped under _SHARED, and a loose plan
\* whose name contains _SHARED, attributed to the agent SHARED of a prompt.
C23_Witness ==
  /\ JustListed
  /\ SharedKey \in ClassifiedAgents
  /\ \E j \in 1..Len(classified) :
       /\ classified[j].path \in LoosePlanBlobs
       /\ Includes(ToUpperCase(FileName(PathText(classified[j].path))), SharedKey)


\* The position in a classified list of the first file of agent a.
FirstFileOf(files, a) == Least({j \in 1..Len(files) : files[j].agentName = a})

\* C24: a loose plan whose upper-cased file name contains the names of
\* several known agents is classified once, under the one of them whose first
\* classified file comes earliest in the primary pass, and the answer lists it
\* under no more than one role.
C24_EarliestAgentWins ==
  /\ JustListed =>
       LET primary == PrimaryPass(tree)
           known == AgentsOf(primary)
       IN  \A k \in LoosePlanBlobs :
             LET among == ContainedAgents(k, known)
             IN  Cardinality(among) >= 2 =>
                   /\ Cardinality(ClassifiedAt(k)) = 1
                   /\ \A j \in ClassifiedAt(k) :
                        /\ classified[j].agentName \in among
                        /\ \A a \in among :
                             FirstFileOf(primary, classified[j].agentName)
                               <= FirstFileOf(primary, a)
  /\ Sent200 => \A k \in LoosePlanBlobs : Cardinality(RolesListing(k)) <= 1

\* An answer that lists the plan 1-ui-db.md, whose name contains DB and UI,
\* under the role UI, whose execution prompt the tree lists before any file
\* of DB.
C24_Witness ==
  /\ Sent200
  /\ \E k \in LoosePlanBlobs :
       /\ Cardinality(ContainedAgents(k, AgentsOf(PrimaryPass(tree)))) >= 2
       /\ \E g \in RolesListing(k) : SentRoles[g].name = <<"U", "I">>


\* The position of path k in the listed tree.
TreePos(k) == Least({i \in 1..Len(tree) : tree[i] = k})

\* C25: within each role of the answer the files keep the classification
\* order: the files of the primary pass in tree order, then the loose plans
\* attributed to the agent in tree order.
C25_FilesKeepOrder ==
  Sent200 =>
    LET loose == LoosePlanBlobs
    IN  \A g \in 1..Len(SentRoles) :
          LET files == SentRoles[g].files
          IN  \A i, j \in 1..Len(files) :
                i < j =>
                  /\ files[i].path \in loose => files[j].path \in loose
                  /\ (files[i].path \in loose <=> files[j].path \in loose)
                       => TreePos(files[i].path) < TreePos(files[j].path)

\* An answer with a role that lists a loose plan after a file of the primary
\* pass although the tree lists the plan first.
C25_Witness ==
  /\ Sent200
  /\ \E g \in 1..Len(SentRoles) :
       LET files == SentRoles[g].files
       IN  \E i, j \in 1..Len(files) :
             /\ i < j
             /\ files[j].path \in LoosePlanBlobs
             /\ files[i].path \notin LoosePlanBlobs
             /\ TreePos(files[j].path) < TreePos(files[i].path)


\* The position in the classified list of the first file that role g lists.
FirstListed(g) ==
  Least({j \in 1..Len(classified) :
           \E i \in 1..Len(SentRoles[g].files) :
             SentRoles[g].files[i].path = classified[j].path})

\* C26: the roles of the answer stand in the order in which their agent names
\* first appear in the classified list; they are sorted neither by name nor
\* by category.
C26_RolesInFirstAppearance ==
  Sent200 =>
    \A g, h \in 1..Len(SentRoles) : g < h => FirstListed(g) < FirstListed(h)

\* An answer of three roles in an order that sorts neither the names nor the
\* categories: SHARED before DB before UI, shared before daily before domain.
C26_Witness ==
  /\ Sent200
  /\ Len(SentRoles) = 3
  /\ SentRoles[1].category = "shared"
  /\ SentRoles[2].category = "daily"
  /\ SentRoles[3].category = "domain"
  /\ SentRoles[2].name = <<"D", "B">>
  /\ SentRoles[3].name = <<"U", "I">>


\* C27: in the answer no two roles have the same name, and a role has the
\* name SHARED exactly when its category is shared, whatever the tree, a tree
\* with a file whose extracted agent name is SHARED included.
C27_NamesIdentifyRoles ==
  Sent200 =>
    /\ \A g, h \in 1..Len(SentRoles) :
         SentRoles[g].name = SentRoles[h].name => g = h
    /\ \A g \in 1..Len(SentRoles) :
         SentRoles[g].name = SharedDisplay <=> SentRoles[g].category = "shared"


\* The scan of client c has failed: its request was answered with an error.
ScanFailed(cs, c) == cs[c].op = "scan" /\ cs[c].status \in ErrorStatuses

\* C28: when the scan request of handleScan is answered with an error,
\* setAgentRoles is not applied: the step that takes the error leaves the
\* database as it is, handleScan ends there with the scanning flag false, and
\* the client never acts on the database afterwards, so the roles stored for
\* the repository are those other operations left.
C28_FailedScanStoresNothing ==
  [][\A c \in Clients :
       /\ ScanFailed(clients', c) /\ ~ScanFailed(clients, c) =>
            /\ store' = store
            /\ ids' = ids
            /\ clients'[c].at = "failed"
            /\ ~clients'[c].scanning
            /\ ~clients'[c].tx
       /\ ScanFailed(clients, c) => clients'[c] = clients[c]
       /\ clients[c].op = "scan" /\ clients[c].at = "post" => clients[c].scanning]_vars

\* A scan of r1 has failed with answer 400, its handler has ended, and the
\* roles the database held for r1 are still stored.
C28_Witness ==
  \E c \in Clients :
    /\ ScanFailed(clients, c)
    /\ clients[c].status = 400
    /\ clients[c].repo = "r1"
    /\ ~clients[c].scanning
    /\ ByRepo(store.agentRoles, "r1") = ByRepo(SeededStore.agentRoles, "r1")
    /\ ByRepo(store.agentRoles, "r1") # {}


\* No client is in the middle of an operation.
AtRest == \A c \in Clients : clients[c].at \in {"idle", "done", "failed"}

\* C29: every stored AgentRole has the repositoryId of a stored Repository,
\* also when deleteRepository ran while a scan of the repository was in
\* flight and the scan's setAgentRoles was applied after the deletion; stated
\* here for the states in which every operation has ended.
C29_RolesHaveRepository ==
  AtRest => \A x \in store.agentRoles : x.repositoryId \in store.repositories


\* The request to the tree provider settles: it rejects or resolves.
TreeSettles == (\E cause \in TreeErrors : TreeFails(cause)) \/ TreeResolves

\* A request to the content provider settles.
ContentSettles == \E k \in DOMAIN contentPending : ContentArrives(k) \/ ContentFails(k)

\* A request to the date provider settles.
DateSettles == \E k \in DOMAIN datePending : DateArrives(k) \/ DateFails(k)

\* The handler runs whenever it is not awaiting a request.
HandlerRuns == RejectBody \/ RejectNoToken \/ RequestTree \/ ContentJoined

\* The step RolesSent, told by its guard and by what it does to pc.
Answering ==
  /\ pc = "dates"
  /\ \A k \in DOMAIN datePending : datePending[k] = 0
  /\ pc' = "done"

\* One scan in which every request to a provider eventually settles and the
\* handler runs when it can.
SpecLive ==
  /\ Init /\ [][Next]_vars
  /\ WF_vars(HandlerRuns)
  /\ WF_pc(Answering)
  /\ WF_vars(TreeSettles)
  /\ WF_vars(ContentSettles)
  /\ WF_vars(DateSettles)

\* C30: when every request to the tree, content and date providers settles,
\* a scan request is answered, with a validation error, a tree-fetch error, a
\* generic failure or the roles, and once it is answered the answer never
\* changes: there is one response, never two and never none.
C30_OneResponse ==
  /\ <>(response # Null)
  /\ [][response # Null => response' = response]_vars
  /\ [](response # Null => response[1].status \in {200, 400, 500})

\* A scan answered with roles although a content request and a date request
\* were rejected.
C30_Witness == Sent200 /\ contentFailed # {} /\ dateFailed # {}

====
